---- MODULE Spec2Model ----
(***************************************************************************)
(* Plotter.draw_plots of src/plotter.py (the "extended" variant) and of    *)
(* src/ChartDrawer.py (the "basic" variant): the reachability check, the   *)
(* JSON parse, the fixed batch of chart sub-operations, the file each one  *)
(* saves and the pyplot figure each one opens and closes.                  *)
(*                                                                         *)
(* Python strings are sequences of one-character strings, so that          *)
(* str.replace, os.path.join and the f-strings that build titles are       *)
(* computed character by character.  A DataFrame is the set of its column  *)
(* names in the batch specification (what decides which lookup raises) and *)
(* a sequence of rows in the specification of draw_top_bottom_data.        *)
(***************************************************************************)
EXTENDS Integers, Sequences, FiniteSets, TLC

VARIABLES
    variant,     \* "extended" (plotter.py) or "basic" (ChartDrawer.py)
    head,        \* what requests.head / raise_for_status does for the URL
    body,        \* what pd.read_json does for the URL
    columns,     \* column names of the parsed table df
    figs_before, \* pyplot figures open when draw_plots is called
    pc,          \* position inside draw_plots
    i,           \* index (1-based) of the batch statement being executed
    plot_paths,  \* the local list plot_paths
    path,        \* the local path of the running sub-operation
    files,       \* files written by plt.savefig during the call, in order
    open_figs,   \* pyplot figures currently open
    result,      \* "pending", "returned" or "raised"
    returned,    \* the list draw_plots returned
    exc,         \* the exception that left draw_plots, or "none"
    log,         \* messages printed
    title_in,    \* argument of a direct __save_plot_to_file call
    rows,        \* rows of the table given to draw_top_bottom_data
    top_in,      \* argument top of draw_top_bottom_data
    values       \* the frame draw_top_bottom_data hands to sns.barplot

vars == <<variant, head, body, columns, figs_before, pc, i, plot_paths, path,
          files, open_figs, result, returned, exc, log, title_in, rows,
          top_in, values>>

----------------------------------------------------------------------------
(* Bounds of the model *)

\* at most this many expected columns are absent from a table
MaxMissing == 2
\* at most this many figures are open before the call
MaxFigsBefore == 1
\* longest column name given to a directly called sub-operation
MaxNameLen == 2
\* largest table given to draw_top_bottom_data (above cnt = 10)
MaxRows == 11

----------------------------------------------------------------------------
(* String literals of the source *)

gt_corners_col == <<"g","t","_","c","o","r","n","e","r","s">>
rb_corners_col == <<"r","b","_","c","o","r","n","e","r","s">>
mean_col == <<"m","e","a","n">>
floor_mean_col == <<"f","l","o","o","r","_","m","e","a","n">>
ceiling_mean_col == <<"c","e","i","l","i","n","g","_","m","e","a","n">>
min_col == <<"m","i","n">>
max_col == <<"m","a","x">>
name_col == <<"n","a","m","e">>
floor_min_col == <<"f","l","o","o","r","_","m","i","n">>
floor_max_col == <<"f","l","o","o","r","_","m","a","x">>
ceiling_min_col == <<"c","e","i","l","i","n","g","_","m","i","n">>
ceiling_max_col == <<"c","e","i","l","i","n","g","_","m","a","x">>

stats_label == <<"s","t","a","t","s">>
means_label == <<"m","e","a","n","s">>
floor_stats_label == <<"f","l","o","o","r"," ","s","t","a","t","s">>
ceiling_stats_label == <<"c","e","i","l","i","n","g"," ","s","t","a","t","s">>
floor_vs_ceiling_label == <<"F","l","o","o","r"," ","v","s"," ","C","e","i","l","i","n","g">>

metric_name == <<"m","e","t","r","i","c">>
Metric_name == <<"M","e","t","r","i","c">>
value_name == <<"v","a","l","u","e">>
variable_name == <<"v","a","r","i","a","b","l","e">>
type_name == <<"t","y","p","e">>

Digits == <<"0","1","2","3","4","5","6","7","8","9">>

\* self.plot_dir = 'plots'
plot_dir == <<"p","l","o","t","s">>

\* floor_columns / ceiling_columns of draw_plots
floor_columns == <<floor_min_col, floor_mean_col, floor_max_col>>
ceiling_columns == <<ceiling_min_col, ceiling_mean_col, ceiling_max_col>>

\* the column set the batch expects
ExpectedColumns ==
    {gt_corners_col, rb_corners_col, mean_col, floor_mean_col,
     ceiling_mean_col, min_col, max_col, name_col, floor_min_col,
     floor_max_col, ceiling_min_col, ceiling_max_col}

Variants == {"extended", "basic"}

\* cnt passed by draw_plots to draw_top_bottom_data
BatchCnt == 10

----------------------------------------------------------------------------
(* Pure helpers *)

Range(s) == {s[k] : k \in DOMAIN s}

\* str(n) for n >= 0, as an f-string formats an int
RECURSIVE IntToStr(_)
IntToStr(n) ==
    IF n < 10 THEN <<Digits[n + 1]>>
    ELSE IntToStr(n \div 10) \o <<Digits[(n % 10) + 1]>>

\* filename.replace(' ', '_', 1): only the first space is replaced
replace_first_space(s) ==
    [k \in DOMAIN s |->
        IF s[k] = " " /\ (\A j \in 1..(k - 1) : s[j] # " ") THEN "_" ELSE s[k]]

\* filename.replace(' ', '_')
replace_spaces(s) == [k \in DOMAIN s |-> IF s[k] = " " THEN "_" ELSE s[k]]

\* os.path.join(a, b) on POSIX: an absolute b discards a
path_join(a, b) ==
    IF Len(b) > 0 /\ b[1] = "/" THEN b
    ELSE IF Len(a) = 0 \/ a[Len(a)] = "/" THEN a \o b
    ELSE a \o <<"/">> \o b

\* the directories that exist once __init__ has run os.makedirs(plot_dir)
ExistingDirs == {plot_dir}

RECURSIVE rstrip_slashes(_)
rstrip_slashes(s) ==
    IF Len(s) > 0 /\ s[Len(s)] = "/" THEN rstrip_slashes(SubSeq(s, 1, Len(s) - 1))
    ELSE s

\* os.path.dirname(p) on POSIX
dirname(p) ==
    LET slashes == {k \in DOMAIN p : p[k] = "/"}
        last == IF slashes = {} THEN 0
                ELSE CHOOSE k \in slashes : \A j \in slashes : j <= k
        h == SubSeq(p, 1, last)
    IN  IF \E k \in DOMAIN h : h[k] # "/" THEN rstrip_slashes(h) ELSE h

\* plt.savefig(filepath, dpi=300) opens filepath for writing: it raises
\* FileNotFoundError when the directory of filepath does not exist
savefig_raises(filepath) ==
    IF dirname(filepath) \in ExistingDirs THEN "none" ELSE "FileNotFoundError"

\* the path __save_plot_to_file saves to and returns
save_plot_to_file(v, filename) ==
    LET name == IF v = "extended" THEN replace_spaces(filename) ELSE filename
    IN  path_join(plot_dir, name) \o <<".","p","n","g">>

----------------------------------------------------------------------------
(* The chart sub-operations: one record per call statement *)

NoStr == <<>>

Scatter(x, y, add_line) ==
    [kind |-> "scatter", x |-> x, y |-> y, add_line |-> add_line,
     cols1 |-> <<>>, cols2 |-> <<>>, label |-> NoStr, cnt |-> 0, top |-> TRUE]
Histogram(column) ==
    [kind |-> "histogram", x |-> column, y |-> NoStr, add_line |-> FALSE,
     cols1 |-> <<>>, cols2 |-> <<>>, label |-> NoStr, cnt |-> 0, top |-> TRUE]
Boxplots(cols, label) ==
    [kind |-> "boxplots", x |-> NoStr, y |-> NoStr, add_line |-> FALSE,
     cols1 |-> cols, cols2 |-> <<>>, label |-> label, cnt |-> 0, top |-> TRUE]
CombinedBoxplots(cols_1, cols_2, label) ==
    [kind |-> "combined", x |-> NoStr, y |-> NoStr, add_line |-> FALSE,
     cols1 |-> cols_1, cols2 |-> cols_2, label |-> label, cnt |-> 0, top |-> TRUE]
TopBottom(column, cnt, top) ==
    [kind |-> "top_bottom", x |-> column, y |-> NoStr, add_line |-> FALSE,
     cols1 |-> <<>>, cols2 |-> <<>>, label |-> NoStr, cnt |-> cnt, top |-> top]

\* the call statements of draw_plots in plotter.py, in order
ExtendedBatch ==
    << Scatter(gt_corners_col, rb_corners_col, TRUE),
       Scatter(gt_corners_col, mean_col, FALSE),
       Scatter(floor_mean_col, ceiling_mean_col, FALSE),
       Histogram(mean_col),
       Histogram(floor_mean_col),
       Histogram(ceiling_mean_col),
       Boxplots(<<min_col, mean_col, max_col>>, stats_label),
       Boxplots(<<mean_col, floor_mean_col, ceiling_mean_col>>, means_label),
       Boxplots(floor_columns, floor_stats_label),
       Boxplots(ceiling_columns, ceiling_stats_label),
       CombinedBoxplots(floor_columns, ceiling_columns, floor_vs_ceiling_label),
       TopBottom(mean_col, BatchCnt, TRUE),
       TopBottom(mean_col, BatchCnt, FALSE) >>

\* the call statements of draw_plots in ChartDrawer.py, in order
BasicBatch ==
    << Scatter(gt_corners_col, rb_corners_col, TRUE),
       Scatter(floor_mean_col, ceiling_mean_col, FALSE),
       Histogram(mean_col),
       Histogram(floor_mean_col),
       Histogram(ceiling_mean_col),
       Boxplots(<<mean_col, floor_mean_col, ceiling_mean_col>>, means_label),
       Boxplots(<<min_col, mean_col, max_col>>, stats_label),
       TopBottom(mean_col, BatchCnt, TRUE),
       TopBottom(mean_col, BatchCnt, FALSE) >>

Batch(v) == IF v = "extended" THEN ExtendedBatch ELSE BasicBatch

\* the title each sub-operation builds with its f-string
Title(op) ==
    CASE op.kind = "scatter" ->
           <<"S","c","a","t","t","e","r"," ","p","l","o","t"," ">> \o op.x
           \o <<" ","v","s"," ">> \o op.y
      [] op.kind = "histogram" ->
           <<"H","i","s","t","o","g","r","a","m"," ","f","o","r"," ">> \o op.x
      [] op.kind \in {"boxplots", "combined"} ->
           <<"B","o","x","p","l","o","t","s"," ","f","o","r"," ">> \o op.label
      [] op.kind = "top_bottom" ->
           <<"T","o","p"," ">> \o IntToStr(op.cnt) \o <<" ">>
           \o (IF op.top THEN <<"b","e","s","t">> ELSE <<"w","o","r","s","t">>)
           \o <<" ","r","e","s","u","l","t","s"," ","f","o","r"," ">> \o op.x

----------------------------------------------------------------------------
(* Which exception a sub-operation raises before it saves.                 *)
(* data[key] and data[[keys]] raise KeyError for an absent label, and so   *)
(* does sort_values(by=key); seaborn raises ValueError when a name given   *)
(* as x= or y= is not a column of data=.                                   *)

\* pandas: data[key]
getitem_raises(cols, key) == IF key \in cols THEN "none" ELSE "KeyError"

\* pandas: data[[k1, k2, ...]]
getitem_list_raises(cols, keys) ==
    IF Range(keys) \subseteq cols THEN "none" ELSE "KeyError"

\* seaborn: a plot called with x=name / y=name and data=frame
seaborn_raises(cols, names) ==
    IF names \subseteq cols THEN "none" ELSE "ValueError"

\* columns of pd.melt(frame, var_name=..., value_name=...)
melt_columns(var_name, val_name) == {var_name, val_name}

draw_scatterplot_raises(cols, x, y, add_line) ==
    IF add_line /\ getitem_list_raises(cols, <<x, y>>) # "none"
    THEN "KeyError"
    ELSE seaborn_raises(cols, {x, y})

draw_histogram_raises(cols, column) == getitem_raises(cols, column)

draw_boxplots_raises(cols, cs) ==
    IF getitem_list_raises(cols, cs) # "none" THEN "KeyError"
    ELSE seaborn_raises(melt_columns(variable_name, value_name),
                        {variable_name, value_name})

\* the column draw_combined_boxplots reads and assigns after the concat
combined_key == Metric_name

draw_combined_boxplots_raises(cols, cs_1, cs_2) ==
    LET combined == melt_columns(metric_name, value_name) \cup {type_name}
    IN  IF getitem_list_raises(cols, cs_1) # "none" THEN "KeyError"
        ELSE IF getitem_list_raises(cols, cs_2) # "none" THEN "KeyError"
        ELSE IF getitem_raises(combined, combined_key) # "none" THEN "KeyError"
        ELSE seaborn_raises(combined \cup {combined_key},
                            {metric_name, value_name, type_name})

draw_top_bottom_data_raises(cols, column) ==
    IF getitem_raises(cols, column) # "none" THEN "KeyError"
    ELSE seaborn_raises(cols, {column, name_col})

\* the exception raised between plt.figure() and the save, or "none"
Raises(v, cols, op) ==
    CASE op.kind = "scatter" -> draw_scatterplot_raises(cols, op.x, op.y, op.add_line)
      [] op.kind = "histogram" -> draw_histogram_raises(cols, op.x)
      [] op.kind = "boxplots" -> draw_boxplots_raises(cols, op.cols1)
      [] op.kind = "combined" -> draw_combined_boxplots_raises(cols, op.cols1, op.cols2)
      [] op.kind = "top_bottom" -> draw_top_bottom_data_raises(cols, op.x)

----------------------------------------------------------------------------
(* draw_plots, statement by statement *)

\* tables that lack at most MaxMissing of the expected columns
Tables ==
    {ExpectedColumns \ m : m \in {n \in SUBSET ExpectedColumns : Cardinality(n) <= MaxMissing}}

\* requests.head(url, timeout=5) followed by raise_for_status()
HeadOutcomes == {"ok", "connection_error", "timeout", "http_error"}

\* pd.read_json(url): a table, ValueError, or another Exception
BodyOutcomes == {"table", "malformed_json", "fetch_error"}

\* __check_url without raise_for_status(): an error status passes
check_url_ignoring_status(h) == h \notin {"connection_error", "timeout"}

\* __check_url: False exactly when the HEAD request or raise_for_status
\* raises a requests.RequestException
check_url(h) == h \notin {"connection_error", "timeout", "http_error"}

\* draw_plots without the "except Exception" handler
read_json_caught_value_error_only(b) == b = "malformed_json"

\* the failures of pd.read_json that "except ValueError" and "except
\* Exception" catch
read_json_caught(b) == b \in {"malformed_json", "fetch_error"}

\* the exceptions of the try block that "except KeyError" catches
draw_caught(e) == e = "KeyError"

NoCall ==
    /\ title_in = <<>>
    /\ rows = <<>>
    /\ top_in = TRUE
    /\ values = <<>>

Init ==
    /\ variant \in Variants
    /\ head \in HeadOutcomes
    /\ body \in BodyOutcomes
    /\ columns \in Tables
    /\ figs_before \in 0..MaxFigsBefore
    /\ pc = "check_url"
    /\ i = 0
    /\ plot_paths = <<>>
    /\ path = <<>>
    /\ files = <<>>
    /\ open_figs = figs_before
    /\ result = "pending"
    /\ returned = <<>>
    /\ exc = "none"
    /\ log = <<>>
    /\ NoCall

Inputs == <<variant, head, body, columns, figs_before, title_in, rows, top_in, values>>

\* if not self.__check_url(file_path): print(...); return []
CheckUrl ==
    /\ pc = "check_url"
    /\ IF check_url(head)
       THEN /\ pc' = "read_json"
            /\ UNCHANGED <<result, returned, log>>
       ELSE /\ log' = log \o <<"Failed to connect to URL", "URL is not accessible">>
            /\ result' = "returned"
            /\ returned' = <<>>
            /\ pc' = "done"
    /\ UNCHANGED <<Inputs, i, plot_paths, path, files, open_figs, exc>>

\* df = pd.read_json(file_path) with its two handlers; plot_paths = []
ReadJson ==
    /\ pc = "read_json"
    /\ IF body = "table"
       THEN /\ pc' = "call"
            /\ i' = 1
            /\ plot_paths' = <<>>
            /\ UNCHANGED <<result, returned, exc, log>>
       ELSE IF read_json_caught(body)
       THEN /\ log' = Append(log, IF body = "malformed_json"
                                  THEN "Failed to read JSON"
                                  ELSE "An error occurred")
            /\ result' = "returned"
            /\ returned' = <<>>
            /\ pc' = "done"
            /\ UNCHANGED <<i, plot_paths, exc>>
       ELSE /\ result' = "raised"
            /\ exc' = body
            /\ pc' = "done"
            /\ UNCHANGED <<i, plot_paths, returned, log>>
    /\ UNCHANGED <<Inputs, path, files, open_figs>>

\* plt.figure() at the top of the i-th sub-operation
OpenFigure ==
    /\ pc = "call"
    /\ i <= Len(Batch(variant))
    /\ open_figs' = open_figs + 1
    /\ pc' = "render"
    /\ UNCHANGED <<Inputs, i, plot_paths, path, files, result, returned, exc, log>>

\* the lookups and the seaborn call of the i-th sub-operation; a KeyError
\* reaches the handler of draw_plots, any other exception leaves draw_plots
Render ==
    /\ pc = "render"
    /\ LET e == Raises(variant, columns, Batch(variant)[i])
       IN  IF e = "none"
           THEN /\ pc' = "save"
                /\ UNCHANGED <<result, returned, exc, log>>
           ELSE IF draw_caught(e)
           THEN /\ log' = Append(log, "Failed to draw plot")
                /\ result' = "returned"
                /\ returned' = plot_paths
                /\ pc' = "done"
                /\ UNCHANGED exc
           ELSE /\ result' = "raised"
                /\ exc' = e
                /\ pc' = "done"
                /\ UNCHANGED <<returned, log>>
    /\ UNCHANGED <<Inputs, i, plot_paths, path, files, open_figs>>

\* path = self.__save_plot_to_file(title)
SavePlot ==
    /\ pc = "save"
    /\ LET filepath == save_plot_to_file(variant, Title(Batch(variant)[i]))
           e == savefig_raises(filepath)
       IN  IF e = "none"
           THEN /\ path' = filepath
                /\ files' = Append(files, filepath)
                /\ pc' = "close"
                /\ UNCHANGED <<result, returned, exc, log>>
           ELSE IF draw_caught(e)
           THEN /\ log' = Append(log, "Failed to draw plot")
                /\ result' = "returned"
                /\ returned' = plot_paths
                /\ pc' = "done"
                /\ UNCHANGED <<path, files, exc>>
           ELSE /\ result' = "raised"
                /\ exc' = e
                /\ pc' = "done"
                /\ UNCHANGED <<path, files, returned, log>>
    /\ UNCHANGED <<Inputs, i, plot_paths, open_figs>>

\* self.__show_and_close_plot(); return path; plot_paths.append(...)
ShowAndClose ==
    /\ pc = "close"
    /\ open_figs' = IF open_figs > 0 THEN open_figs - 1 ELSE 0
    /\ plot_paths' = Append(plot_paths, path)
    /\ i' = i + 1
    /\ pc' = "call"
    /\ UNCHANGED <<Inputs, path, files, result, returned, exc, log>>

\* return plot_paths after the last statement of the try block
ReturnPaths ==
    /\ pc = "call"
    /\ i > Len(Batch(variant))
    /\ result' = "returned"
    /\ returned' = plot_paths
    /\ pc' = "done"
    /\ UNCHANGED <<Inputs, i, plot_paths, path, files, open_figs, exc, log>>

Next ==
    \/ CheckUrl
    \/ ReadJson
    \/ OpenFigure
    \/ Render
    \/ SavePlot
    \/ ShowAndClose
    \/ ReturnPaths

Spec == Init /\ [][Next]_vars

----------------------------------------------------------------------------
(* The list draw_plots builds, as a function of the variant and the table  *)

\* the exception a whole sub-operation call raises, or "none"
call_raises(v, cols, op) ==
    IF Raises(v, cols, op) # "none" THEN Raises(v, cols, op)
    ELSE savefig_raises(save_plot_to_file(v, Title(op)))

\* index of the first statement of the batch that raises, or Len + 1
FirstRaising(v, cols) ==
    LET b == Batch(v)
        bad == {k \in DOMAIN b : call_raises(v, cols, b[k]) # "none"}
    IN  IF bad = {} THEN Len(b) + 1
        ELSE CHOOSE k \in bad : \A j \in bad : k <= j

\* plot_paths when the try block is left
batch_paths(v, cols) ==
    [k \in 1..(FirstRaising(v, cols) - 1) |->
        save_plot_to_file(v, Title(Batch(v)[k]))]

\* whether draw_plots returns (rather than raises) for a parsed table
batch_returns(v, cols) ==
    LET k == FirstRaising(v, cols)
    IN  k > Len(Batch(v)) \/ draw_caught(call_raises(v, cols, Batch(v)[k]))

\* the columns a sub-operation reads from the table
ColumnsUsed(op) ==
    CASE op.kind = "scatter" -> {op.x, op.y}
      [] op.kind = "histogram" -> {op.x}
      [] op.kind = "boxplots" -> Range(op.cols1)
      [] op.kind = "combined" -> Range(op.cols1) \cup Range(op.cols2)
      [] op.kind = "top_bottom" -> {op.x, name_col}

----------------------------------------------------------------------------
(* __save_plot_to_file on the titles the sub-operations can build          *)

NameChars == {"a", "b", " ", "_", "/"}

RECURSIVE StringsUpTo(_)
StringsUpTo(n) ==
    IF n = 0 THEN {<<>>}
    ELSE LET shorter == StringsUpTo(n - 1)
         IN  shorter \cup {Append(t, c) : t \in shorter, c \in NameChars}

Names == StringsUpTo(MaxNameLen)

\* cnt=5, the default of draw_top_bottom_data
DefaultCnt == 5

\* calls of the public sub-operations with arbitrary column names
SampleOps ==
    {Scatter(x, y, FALSE) : x \in Names, y \in Names}
    \cup {Histogram(x) : x \in Names}
    \cup {Boxplots(<<x>>, x) : x \in Names}
    \cup {TopBottom(x, c, t) : x \in Names, c \in {DefaultCnt, BatchCnt}, t \in BOOLEAN}
    \cup Range(ExtendedBatch) \cup Range(BasicBatch)

SaveTitles == {Title(op) : op \in SampleOps}

SaveInit ==
    /\ variant \in Variants
    /\ title_in \in SaveTitles
    /\ pc = "save_call"
    /\ head = "ok" /\ body = "table" /\ columns = ExpectedColumns
    /\ figs_before = 0 /\ open_figs = 1
    /\ i = 0 /\ plot_paths = <<>> /\ path = <<>> /\ files = <<>>
    /\ result = "pending" /\ returned = <<>> /\ exc = "none" /\ log = <<>>
    /\ rows = <<>> /\ top_in = TRUE /\ values = <<>>

\* one call of __save_plot_to_file(title_in): the path is returned when
\* plt.savefig wrote the file, otherwise the exception of savefig leaves it
SavePlotToFile ==
    /\ pc = "save_call"
    /\ LET filepath == save_plot_to_file(variant, title_in)
           e == savefig_raises(filepath)
       IN  IF e = "none"
           THEN /\ path' = filepath
                /\ files' = Append(files, filepath)
                /\ pc' = "saved"
                /\ UNCHANGED <<result, exc>>
           ELSE /\ result' = "raised"
                /\ exc' = e
                /\ pc' = "save_failed"
                /\ UNCHANGED <<path, files>>
    /\ UNCHANGED <<Inputs, i, plot_paths, open_figs, returned, log>>

SaveNext == SavePlotToFile

SpecSave == SaveInit /\ [][SaveNext]_vars

----------------------------------------------------------------------------
(* draw_top_bottom_data on tables of rows (name, mean)                     *)

MeanValues == {1, 2}

\* a table of n rows; row k is named k
Frames ==
    UNION {{[k \in 1..n |-> [name |-> k, mean |-> m[k]]] : m \in [1..n -> MeanValues]}
           : n \in 0..MaxRows}

\* ascending=top in data.sort_values(by=column, ascending=top)
sort_ascending(top) == top

\* row a is placed strictly before row b by the sort
Before(a, b, top) ==
    IF sort_ascending(top) THEN a.mean < b.mean ELSE a.mean > b.mean

RECURSIVE KSubsets(_, _)
KSubsets(S, k) ==
    IF k = 0 THEN {{}}
    ELSE IF S = {} THEN {}
    ELSE LET x == CHOOSE y \in S : \A z \in S : y <= z
         IN  KSubsets(S \ {x}, k) \cup {T \cup {x} : T \in KSubsets(S \ {x}, k - 1)}

\* the rows with indices in S, sorted; equal keys are listed in row order
RECURSIVE SortedRows(_, _, _)
SortedRows(rs, S, top) ==
    IF S = {} THEN <<>>
    ELSE LET f == CHOOSE a \in S :
                    \A b \in S \ {a} :
                        \/ Before(rs[a], rs[b], top)
                        \/ (~Before(rs[b], rs[a], top) /\ a < b)
         IN  <<rs[f]>> \o SortedRows(rs, S \ {f}, top)

\* data.sort_values(by=column, ascending=top).head(cnt): every frame the
\* sort can produce.  The sort algorithm (quicksort) does not fix the
\* order of equal keys, so which of several equal rows survive head(cnt)
\* is its choice.
sort_values_head(rs, cnt, top) ==
    LET n == Len(rs)
        k == IF cnt < n THEN cnt ELSE n
    IN  {SortedRows(rs, (1..n) \ D, top) :
            D \in {E \in KSubsets(1..n, n - k) :
                     \A d \in E : \A j \in (1..n) \ E :
                        ~Before(rs[d], rs[j], top)}}

TopInit ==
    /\ variant \in Variants
    /\ rows \in Frames
    /\ top_in \in BOOLEAN
    /\ values = <<>>
    /\ pc = "top_call"
    /\ head = "ok" /\ body = "table" /\ columns = {mean_col, name_col}
    /\ figs_before = 0 /\ open_figs = 0
    /\ i = 0 /\ plot_paths = <<>> /\ path = <<>> /\ files = <<>>
    /\ result = "pending" /\ returned = <<>> /\ exc = "none" /\ log = <<>>
    /\ title_in = <<>>

\* one call draw_top_bottom_data(data, 'mean', 10, top_in): the figure is
\* opened, the selected rows go to sns.barplot, the file is saved and the
\* figure closed
DrawTopBottomData ==
    /\ pc = "top_call"
    /\ draw_top_bottom_data_raises(columns, mean_col) = "none"
    /\ values' \in sort_values_head(rows, BatchCnt, top_in)
    /\ path' = save_plot_to_file(variant, Title(TopBottom(mean_col, BatchCnt, top_in)))
    /\ savefig_raises(path') = "none"
    /\ files' = Append(files, path')
    /\ pc' = "top_done"
    /\ UNCHANGED <<variant, head, body, columns, figs_before, title_in, rows,
                   top_in, i, plot_paths, open_figs, result, returned, exc, log>>

TopNext == DrawTopBottomData

SpecTop == TopInit /\ [][TopNext]_vars

----------------------------------------------------------------------------
(* Properties *)

ExampleTitle ==
    <<"S","c","a","t","t","e","r"," ","p","l","o","t"," ","a"," ","v","s",
      " ","b">>

ExampleSanitized ==
    <<"S","c","a","t","t","e","r","_","p","l","o","t","_","a","_","v","s",
      "_","b",".","p","n","g">>

ExampleUnsanitized ==
    <<"S","c","a","t","t","e","r"," ","p","l","o","t"," ","a"," ","v","s",
      " ","b",".","p","n","g">>

TopBestTitle ==
    <<"T","o","p"," ","1","0"," ","b","e","s","t"," ","r","e","s","u","l",
      "t","s"," ","f","o","r"," ","m","e","a","n">>

TopWorstTitle ==
    <<"T","o","p"," ","1","0"," ","w","o","r","s","t"," ","r","e","s","u",
      "l","t","s"," ","f","o","r"," ","m","e","a","n">>

\* a is a subsequence of b
RECURSIVE IsSubsequence(_, _)
IsSubsequence(a, b) ==
    IF a = <<>> THEN TRUE
    ELSE IF b = <<>> THEN FALSE
    ELSE IF a[1] = b[1] THEN IsSubsequence(Tail(a), Tail(b))
    ELSE IsSubsequence(a, Tail(b))

Distinct(s) == \A a, b \in DOMAIN s : a # b => s[a] # s[b]

\* draw_plots has finished on a reachable URL whose body parsed into a table
Parsed == pc = "done" /\ head = "ok" /\ body = "table"

\* the state machine and the function batch_paths agree on what is returned
BatchPathsAgree ==
    Parsed =>
        /\ (result = "returned") = batch_returns(variant, columns)
        /\ result = "returned" => returned = batch_paths(variant, columns)

\* C1: for a table with every expected column draw_plots returns 13 paths
\* (extended) or 9 paths (basic), each a file written during the call.
C1_FullBatch ==
    (Parsed /\ columns = ExpectedColumns) =>
        /\ result = "returned"
        /\ Len(returned) = (IF variant = "extended" THEN 13 ELSE 9)
        /\ returned = files
        /\ \A k \in DOMAIN returned :
               SubSeq(returned[k], 1, Len(plot_dir) + 1) = plot_dir \o <<"/">>

\* C2: for a table lacking exactly one expected column draw_plots returns
\* exactly the paths of the operations before the first one that uses the
\* column; that operation and the later ones write nothing and the later
\* ones are not attempted.
C2_PrefixOnMissingColumn ==
    (Parsed /\ Cardinality(ExpectedColumns \ columns) = 1) =>
        LET c == CHOOSE x \in ExpectedColumns : x \notin columns
            b == Batch(variant)
            users == {k \in DOMAIN b : c \in ColumnsUsed(b[k])}
            kf == IF users = {} THEN Len(b) + 1
                  ELSE CHOOSE k \in users : \A j \in users : k <= j
        IN  /\ result = "returned"
            /\ returned = [k \in 1..(kf - 1) |-> save_plot_to_file(variant, Title(b[k]))]
            /\ files = returned
            /\ i = kf

\* C3: when the reachability check fails draw_plots returns [] without
\* raising, never reads the resource, starts no chart and writes no file.
C3_UnreachableReturnsEmpty ==
    head # "ok" =>
        /\ pc \in {"check_url", "done"}
        /\ i = 0 /\ files = <<>> /\ open_figs = figs_before
        /\ "Failed to read JSON" \notin Range(log)
        /\ "An error occurred" \notin Range(log)
        /\ pc = "done" =>
              /\ result = "returned" /\ returned = <<>> /\ exc = "none"
              /\ log = <<"Failed to connect to URL", "URL is not accessible">>

C3_Witness ==
    /\ pc = "done" /\ head = "http_error"
    /\ result = "returned" /\ returned = <<>> /\ files = <<>>

\* C4: when the check succeeds but pd.read_json raises (ValueError or any
\* other exception) draw_plots returns [] without raising, starts no chart
\* and writes no file.
C4_ParseFailureReturnsEmpty ==
    (head = "ok" /\ body # "table") =>
        /\ pc \in {"check_url", "read_json", "done"}
        /\ i = 0 /\ files = <<>> /\ open_figs = figs_before
        /\ pc = "done" =>
              /\ result = "returned" /\ returned = <<>> /\ exc = "none"
              /\ log = <<IF body = "malformed_json" THEN "Failed to read JSON"
                         ELSE "An error occurred">>

C4_Witness ==
    /\ pc = "done" /\ head = "ok" /\ body = "fetch_error"
    /\ result = "returned" /\ returned = <<>> /\ files = <<>>

\* C6: for the same table, the paths the basic variant returns, with
\* spaces replaced by underscores, are a subsequence of the paths the
\* extended variant returns.
C6_BasicIsSubsequenceOfExtended ==
    (Parsed /\ variant = "basic" /\ result = "returned") =>
        /\ batch_returns("extended", columns)
        /\ IsSubsequence([k \in DOMAIN returned |-> replace_spaces(returned[k])],
                         batch_paths("extended", columns))

\* C7: draw_plots always ends by returning a sequence; no exception
\* reaches the caller, whatever column is missing.
C7_NeverRaises ==
    pc = "done" => (result = "returned" /\ exc = "none")

\* C9: when draw_plots is left as many figures are open as when it was
\* called, and at most one figure of the batch is open at any time.
C9_FiguresReleased ==
    /\ open_figs <= figs_before + 1
    /\ pc = "done" => open_figs = figs_before

\* C10: whatever the outcome, the returned sequence is exactly the sequence
\* of files written during the call, in order and without repetition.
C10_ReturnedIsWritten ==
    pc = "done" => (returned = files /\ Distinct(files))

\* C8: every file the extended variant saves is plot_dir/<title with every
\* space replaced by an underscore>.png, so no file name contains a space
\* and 'Scatter plot a vs b' gives 'Scatter_plot_a_vs_b.png'; every file the
\* basic variant saves is plot_dir/<title>.png with its spaces.  A call
\* whose savefig raises saves no file and returns no path.
C8_FilenameSanitization ==
    /\ pc = "save_failed" => (files = <<>> /\ path = <<>> /\ result = "raised")
    /\ pc = "saved" =>
        LET pre == plot_dir \o <<"/">>
            fname == SubSeq(path, Len(pre) + 1, Len(path))
            stem == SubSeq(path, Len(pre) + 1, Len(path) - 4)
        IN  /\ files = <<path>>
            /\ Len(path) = Len(pre) + Len(title_in) + 4
            /\ SubSeq(path, 1, Len(pre)) = pre
            /\ SubSeq(path, Len(path) - 3, Len(path)) = <<".","p","n","g">>
            /\ variant = "extended" =>
                  /\ \A k \in DOMAIN title_in :
                        stem[k] = (IF title_in[k] = " " THEN "_" ELSE title_in[k])
                  /\ " " \notin Range(fname)
                  /\ title_in = ExampleTitle => fname = ExampleSanitized
            /\ variant = "basic" =>
                  /\ stem = title_in
                  /\ title_in = ExampleTitle => fname = ExampleUnsanitized

C8_Witness ==
    /\ pc = "saved" /\ variant = "extended" /\ title_in = ExampleTitle
    /\ path = plot_dir \o <<"/">> \o ExampleSanitized

\* the rows of the table that are not in the chart
NotCharted == Range(rows) \ Range(values)

\* the chart has min(10, number of rows) bars, each a row of the table with
\* its name, no row twice, and the file is named after the given title
ChartOfRows(title) ==
    /\ Len(values) = (IF Len(rows) < 10 THEN Len(rows) ELSE 10)
    /\ Range(values) \subseteq Range(rows)
    /\ Distinct(values)
    /\ files = <<save_plot_to_file(variant, title)>>

\* C5: the 'Top 10 best results for mean' chart has the 10 rows
\* with the largest values and the 'Top 10 worst results for mean' chart
\* the 10 rows with the smallest, each bar labelled with its row's name;
\* with fewer than 10 rows both have all rows.
C5_BestIsLargest ==
    pc = "top_done" =>
        IF top_in
        THEN /\ ChartOfRows(TopBestTitle)
             /\ \A r \in Range(values) : \A q \in NotCharted : r.mean >= q.mean
        ELSE /\ ChartOfRows(TopWorstTitle)
             /\ \A r \in Range(values) : \A q \in NotCharted : r.mean =< q.mean

====
